---- MODULE Spec2Model ----
(***************************************************************************)
(* Beam analysis engine of BeamV3: calculateReactions and                  *)
(* calculateDiagrams as carried in src/utils/beamCalculator.ts (the module *)
(* App imports) and in src/unnamed/part_001 (a second copy of the engine). *)
(*                                                                         *)
(* Numbers.  A JavaScript number is modelled as a pair <<n, d>>:           *)
(*   d > 0          the rational n/d in lowest terms,                      *)
(*   <<1, 0>>       +Infinity,   <<-1, 0>>  -Infinity,   <<0, 0>>  NaN.    *)
(* Arithmetic on finite values is exact (no rounding error); the special   *)
(* values follow IEEE-754 as JavaScript does.  The sign of zero is not     *)
(* kept: every zero divisor the model can produce (dx, EI) is +0 because   *)
(* length, E and I are drawn non-negative.                                 *)
(* undefined (an absent optional field) is the empty tuple.                *)
(***************************************************************************)
EXTENDS Integers, Sequences, FiniteSets, TLC

(***************************************************************************)
(* Number arithmetic                                                       *)
(***************************************************************************)
AbsInt(n) == IF n < 0 THEN -n ELSE n

SignInt(n) == IF n > 0 THEN 1 ELSE IF n < 0 THEN -1 ELSE 0

RECURSIVE GCD(_, _)
GCD(a, b) == IF b = 0 THEN a ELSE GCD(b, a % b)

\* n/d in lowest terms with a positive denominator (d # 0)
Norm(n, d) ==
    LET g == GCD(AbsInt(n), AbsInt(d))
    IN  IF d > 0 THEN <<n \div g, d \div g>>
                 ELSE <<(-n) \div g, (-d) \div g>>

R(n) == <<n, 1>>

Zero == <<0, 1>>

NaN == <<0, 0>>

PInf == <<1, 0>>

NInf == <<-1, 0>>

Undefined == <<>>

IsNaN(a) == a = NaN

IsFinite(a) == a[2] # 0

IsInf(a) == a = PInf \/ a = NInf

Neg(a) == <<-a[1], a[2]>>

Add(a, b) ==
    IF IsFinite(a) /\ IsFinite(b)
    THEN LET g == GCD(a[2], b[2])
         IN  Norm(a[1] * (b[2] \div g) + b[1] * (a[2] \div g), (a[2] \div g) * b[2])
    ELSE IF IsNaN(a) \/ IsNaN(b) THEN NaN
    ELSE IF IsInf(a) /\ IsInf(b) THEN (IF a = b THEN a ELSE NaN)
    ELSE IF IsInf(a) THEN a ELSE b

Sub(a, b) == Add(a, Neg(b))

Mul(a, b) ==
    IF IsFinite(a) /\ IsFinite(b)
    THEN LET g1 == GCD(AbsInt(a[1]), b[2])
             g2 == GCD(AbsInt(b[1]), a[2])
         IN  Norm((a[1] \div g1) * (b[1] \div g2), (a[2] \div g2) * (b[2] \div g1))
    ELSE IF IsNaN(a) \/ IsNaN(b) THEN NaN
    ELSE IF a[1] = 0 \/ b[1] = 0 THEN NaN
    ELSE <<SignInt(a[1]) * SignInt(b[1]), 0>>

Div(a, b) ==
    IF IsNaN(a) \/ IsNaN(b) THEN NaN
    ELSE IF IsFinite(a) /\ IsFinite(b)
    THEN IF b[1] = 0
         THEN (IF a[1] = 0 THEN NaN ELSE <<SignInt(a[1]), 0>>)
         ELSE Mul(a, Norm(b[2] * SignInt(b[1]), AbsInt(b[1])))
    ELSE IF IsInf(a) /\ IsInf(b) THEN NaN
    ELSE IF IsInf(a) THEN <<a[1] * (IF b[1] < 0 THEN -1 ELSE 1), 0>>
    ELSE Zero

\* n1/d1 < n2/d2 for positive denominators, by comparing the integer parts and
\* then the reciprocals of the fractional parts (no product is formed)
RECURSIVE LtFrac(_, _, _, _)
LtFrac(n1, d1, n2, d2) ==
    LET q1 == n1 \div d1
        q2 == n2 \div d2
        r1 == n1 % d1
        r2 == n2 % d2
    IN  IF q1 # q2 THEN q1 < q2
        ELSE IF r2 = 0 THEN FALSE
        ELSE IF r1 = 0 THEN TRUE
        ELSE LtFrac(d2, r2, d1, r1)

\* a < b (false when either is NaN)
Lt(a, b) ==
    IF IsNaN(a) \/ IsNaN(b) THEN FALSE
    ELSE IF a = b THEN FALSE
    ELSE IF a = PInf \/ b = NInf THEN FALSE
    ELSE IF a = NInf \/ b = PInf THEN TRUE
    ELSE LtFrac(a[1], a[2], b[1], b[2])

Gt(a, b) == Lt(b, a)

\* a >= b (false when either is NaN)
Ge(a, b) == ~IsNaN(a) /\ ~IsNaN(b) /\ ~Lt(a, b)

\* Math.abs
AbsN(a) == <<AbsInt(a[1]), a[2]>>

\* Math.min, Math.max: NaN when either argument is NaN
MinN(a, b) == IF IsNaN(a) \/ IsNaN(b) THEN NaN ELSE IF Lt(b, a) THEN b ELSE a

MaxN(a, b) == IF IsNaN(a) \/ IsNaN(b) THEN NaN ELSE IF Lt(a, b) THEN b ELSE a

\* Math.round: floor(a + 1/2); Infinity and NaN are returned unchanged
Round(a) ==
    IF IsFinite(a) THEN <<(2 * a[1] + a[2]) \div (2 * a[2]), 1>> ELSE a

\* JavaScript truthiness of an optional number: undefined, 0 and NaN are falsy
Truthy(a) == a # Undefined /\ a[1] # 0

(***************************************************************************)
(* Reactions, src/utils/beamCalculator.ts                                  *)
(***************************************************************************)
Reactions(ra, rb, ma) == [Ra |-> ra, Rb |-> rb, Ma |-> ma]

\* lines 17-32: one step of loads.forEach on <<totalLoadForce, totalLoadMomentAtZero>>
totalLoadStep(acc, load) ==
    IF load.type = "point"
    THEN <<Add(acc[1], load.value), Sub(acc[2], Mul(load.value, load.position))>>
    ELSE IF load.type = "distributed" /\ Truthy(load.length)
    THEN LET F == Mul(load.value, load.length)
             center == Add(load.position, Div(load.length, R(2)))
         IN  <<Add(acc[1], F), Sub(acc[2], Mul(F, center))>>
    ELSE IF load.type = "moment"
    THEN <<acc[1], Add(acc[2], load.value)>>
    ELSE acc

RECURSIVE totalLoad(_, _, _)
totalLoad(loads, i, acc) ==
    IF i > Len(loads) THEN acc ELSE totalLoad(loads, i + 1, totalLoadStep(acc, loads[i]))

\* lines 66-79, 94-104: one step of the sum of load moments about a support
sumMomentsAboutAStep(acc, load, supportA) ==
    IF load.type = "point"
    THEN Sub(acc, Mul(load.value, Sub(load.position, supportA)))
    ELSE IF load.type = "distributed" /\ Truthy(load.length)
    THEN LET F == Mul(load.value, load.length)
             center == Add(load.position, Div(load.length, R(2)))
         IN  Sub(acc, Mul(F, Sub(center, supportA)))
    ELSE IF load.type = "moment"
    THEN Add(acc, load.value)
    ELSE acc

RECURSIVE sumMomentsAboutA(_, _, _, _)
sumMomentsAboutA(loads, i, acc, supportA) ==
    IF i > Len(loads) THEN acc
    ELSE sumMomentsAboutA(loads, i + 1, sumMomentsAboutAStep(acc, loads[i], supportA), supportA)

\* mutant of sumMomentsAboutWallStep: a concentrated moment enters with the wrong sign
sumMomentsAboutWallStep_momentSign(acc, load, wallX) ==
    IF load.type = "point"
    THEN Add(acc, Mul(load.value, Sub(wallX, load.position)))
    ELSE IF load.type = "distributed" /\ Truthy(load.length)
    THEN LET F == Mul(load.value, load.length)
             center == Add(load.position, Div(load.length, R(2)))
         IN  Add(acc, Mul(F, Sub(wallX, center)))
    ELSE IF load.type = "moment"
    THEN Sub(acc, load.value)
    ELSE acc

\* lines 121-138: one step of the sum of load moments about the right wall
sumMomentsAboutWallStep(acc, load, wallX) ==
    IF load.type = "point"
    THEN Add(acc, Mul(load.value, Sub(wallX, load.position)))
    ELSE IF load.type = "distributed" /\ Truthy(load.length)
    THEN LET F == Mul(load.value, load.length)
             center == Add(load.position, Div(load.length, R(2)))
         IN  Add(acc, Mul(F, Sub(wallX, center)))
    ELSE IF load.type = "moment"
    THEN Add(acc, load.value)
    ELSE acc

RECURSIVE sumMomentsAboutWall(_, _, _, _)
sumMomentsAboutWall(loads, i, acc, wallX) ==
    IF i > Len(loads) THEN acc
    ELSE sumMomentsAboutWall(loads, i + 1, sumMomentsAboutWallStep(acc, loads[i], wallX), wallX)

\* the degenerate-support tolerance 1e-4 (Math.abs(dist) < 1e-4)
DegenerateTolDen == 10000

DegenerateTol == <<1, DegenerateTolDen>>

\* mutant of calculateReactionsU: the guard tests dist instead of Math.abs(dist)
calculateReactionsU_signedGuard(state) ==
    LET tl == totalLoad(state.loads, 1, <<Zero, Zero>>)
        totalLoadForce == tl[1]
    IN  IF state.type = "simple"
        THEN LET dist == Sub(state.supportB, state.supportA)
             IN  IF Lt(dist, DegenerateTol)
                 THEN Reactions(Zero, Zero, Zero)
                 ELSE LET sumA == sumMomentsAboutA(state.loads, 1, Zero, state.supportA)
                          reactionB == Div(Neg(sumA), dist)
                          reactionA == Sub(totalLoadForce, reactionB)
                      IN  Reactions(reactionA, reactionB, Zero)
        ELSE IF state.type = "cantilever-left"
        THEN LET sumA == sumMomentsAboutA(state.loads, 1, Zero, state.supportA)
             IN  Reactions(totalLoadForce, Zero, Neg(sumA))
        ELSE LET sumW == sumMomentsAboutWall(state.loads, 1, Zero, state.length)
             IN  Reactions(Zero, totalLoadForce, Neg(sumW))

\* lines 51-52 (part_001 lines 39-40): if (Math.abs(dist) < 1e-4) return zeros
reactionGuard(state) == Lt(AbsN(Sub(state.supportB, state.supportA)), DegenerateTol)

\* line 54: the Rb of the 'simple' branch computed from moments about x = 0
\* (a local the function does not return)
closedFormRb(state) ==
    LET tl == totalLoad(state.loads, 1, <<Zero, Zero>>)
        totalLoadForce == tl[1]
        totalLoadMomentAtZero == tl[2]
        dist == Sub(state.supportB, state.supportA)
    IN  Div(Neg(Add(totalLoadMomentAtZero, Mul(Neg(totalLoadForce), state.supportA))), dist)

calculateReactionsU(state) ==
    LET tl == totalLoad(state.loads, 1, <<Zero, Zero>>)
        totalLoadForce == tl[1]
    IN  IF state.type = "simple"
        THEN LET dist == Sub(state.supportB, state.supportA)
             IN  IF reactionGuard(state)
                 THEN Reactions(Zero, Zero, Zero)
                 ELSE LET sumA == sumMomentsAboutA(state.loads, 1, Zero, state.supportA)
                          reactionB == Div(Neg(sumA), dist)
                          reactionA == Sub(totalLoadForce, reactionB)
                      IN  Reactions(reactionA, reactionB, Zero)
        ELSE IF state.type = "cantilever-left"
        THEN LET sumA == sumMomentsAboutA(state.loads, 1, Zero, state.supportA)
             IN  Reactions(totalLoadForce, Zero, Neg(sumA))
        ELSE LET sumW == sumMomentsAboutWall(state.loads, 1, Zero, state.length)
             IN  Reactions(Zero, totalLoadForce, Neg(sumW))

(***************************************************************************)
(* Reactions, src/unnamed/part_001                                         *)
(***************************************************************************)
\* mutant of analyzeLoadStep: the force of a distributed load is its intensity
analyzeLoadStep_distValue(acc, load, pivot) ==
    IF load.type = "point"
    THEN [force |-> Add(acc.force, load.value),
          moment |-> Add(acc.moment, Mul(load.value, Sub(load.position, pivot)))]
    ELSE IF load.type = "distributed" /\ Truthy(load.length)
    THEN LET F == load.value
             center == Add(load.position, Div(load.length, R(2)))
         IN  [force |-> Add(acc.force, F),
              moment |-> Add(acc.moment, Mul(F, Sub(center, pivot)))]
    ELSE IF load.type = "moment"
    THEN [force |-> acc.force, moment |-> Sub(acc.moment, load.value)]
    ELSE acc

\* lines 13-31: one step of loads.forEach on [force, moment]
analyzeLoadStep(acc, load, pivot) ==
    IF load.type = "point"
    THEN [force |-> Add(acc.force, load.value),
          moment |-> Add(acc.moment, Mul(load.value, Sub(load.position, pivot)))]
    ELSE IF load.type = "distributed" /\ Truthy(load.length)
    THEN LET F == Mul(load.value, load.length)
             center == Add(load.position, Div(load.length, R(2)))
         IN  [force |-> Add(acc.force, F),
              moment |-> Add(acc.moment, Mul(F, Sub(center, pivot)))]
    ELSE IF load.type = "moment"
    THEN [force |-> acc.force, moment |-> Sub(acc.moment, load.value)]
    ELSE acc

RECURSIVE analyzeLoadFrom(_, _, _, _)
analyzeLoadFrom(loads, i, acc, pivot) ==
    IF i > Len(loads) THEN acc
    ELSE analyzeLoadFrom(loads, i + 1, analyzeLoadStep(acc, loads[i], pivot), pivot)

analyzeLoad(loads, pivot) ==
    analyzeLoadFrom(loads, 1, [force |-> Zero, moment |-> Zero], pivot)

\* mutant of calculateReactionsP: the Simple case takes moments about x = 0
calculateReactionsP_pivotZero(state) ==
    IF state.type = "simple"
    THEN LET loadAnalysis == analyzeLoad(state.loads, Zero)
             dist == Sub(state.supportB, state.supportA)
         IN  IF Lt(AbsN(dist), DegenerateTol)
             THEN Reactions(Zero, Zero, Zero)
             ELSE LET Rb == Div(loadAnalysis.moment, dist)
                      Ra == Sub(loadAnalysis.force, Rb)
                  IN  Reactions(Ra, Rb, Zero)
    ELSE IF state.type = "cantilever-left"
    THEN LET loadAnalysis == analyzeLoad(state.loads, state.supportA)
         IN  Reactions(loadAnalysis.force, Zero, loadAnalysis.moment)
    ELSE LET loadAnalysis == analyzeLoad(state.loads, state.length)
         IN  Reactions(Zero, loadAnalysis.force, loadAnalysis.moment)

\* mutant of calculateReactionsP: the Simple case divides by |dist|
calculateReactionsP_absDist(state) ==
    IF state.type = "simple"
    THEN LET loadAnalysis == analyzeLoad(state.loads, state.supportA)
             dist == Sub(state.supportB, state.supportA)
         IN  IF reactionGuard(state)
             THEN Reactions(Zero, Zero, Zero)
             ELSE LET Rb == Div(loadAnalysis.moment, AbsN(dist))
                      Ra == Sub(loadAnalysis.force, Rb)
                  IN  Reactions(Ra, Rb, Zero)
    ELSE IF state.type = "cantilever-left"
    THEN LET loadAnalysis == analyzeLoad(state.loads, state.supportA)
         IN  Reactions(loadAnalysis.force, Zero, loadAnalysis.moment)
    ELSE LET loadAnalysis == analyzeLoad(state.loads, state.length)
         IN  Reactions(Zero, loadAnalysis.force, loadAnalysis.moment)

calculateReactionsP(state) ==
    IF state.type = "simple"
    THEN LET loadAnalysis == analyzeLoad(state.loads, state.supportA)
             dist == Sub(state.supportB, state.supportA)
         IN  IF reactionGuard(state)
             THEN Reactions(Zero, Zero, Zero)
             ELSE LET Rb == Div(loadAnalysis.moment, dist)
                      Ra == Sub(loadAnalysis.force, Rb)
                  IN  Reactions(Ra, Rb, Zero)
    ELSE IF state.type = "cantilever-left"
    THEN LET loadAnalysis == analyzeLoad(state.loads, state.supportA)
         IN  Reactions(loadAnalysis.force, Zero, loadAnalysis.moment)
    ELSE LET loadAnalysis == analyzeLoad(state.loads, state.length)
         IN  Reactions(Zero, loadAnalysis.force, loadAnalysis.moment)

\* the engine linked into the application: "utils" or "part_001"
calculateReactions(engine, state) ==
    IF engine = "utils" THEN calculateReactionsU(state) ELSE calculateReactionsP(state)

(***************************************************************************)
(* Diagrams: resolution and stiffness                                      *)
(***************************************************************************)
\* Resolution of the calculation: samples 0..POINTS.  The source sets 200
\* (utils/beamCalculator.ts) and 400 (part_001); the model sweeps a coarser
\* grid, which keeps every formula of the sweep and of the integration.
POINTS == 4

\* (customI || profile.I) / 100000000, material.E * 1000000, EI = E_kpa * I_m4
Cm4PerM4 == 100000000

KpaPerGpa == 1000000

stiffnessEI(state) ==
    LET I_m4 == Div(IF Truthy(state.customI) THEN state.customI ELSE state.profile.I,
                    R(Cm4PerM4))
        E_kpa == Mul(state.material.E, R(KpaPerGpa))
    IN  Mul(E_kpa, I_m4)

\* mutant of sampleDx: the length is divided by the number of samples
sampleDx_perSample(state) == Div(state.length, R(POINTS + 1))

sampleDx(state) == Div(state.length, R(POINTS))

sampleX(state, i) == Mul(R(i), sampleDx(state))

(***************************************************************************)
(* Pass 1 (shear and moment by sections), src/unnamed/part_001 lines 90-152*)
(***************************************************************************)
\* mutant of loadLeftOfP: the chunk of a distributed load acts at its far end
loadLeftOfP_centroid(acc, load, x) ==
    IF load.type = "point"
    THEN IF Gt(x, load.position)
         THEN [shear |-> Sub(acc.shear, load.value),
               moment |-> Sub(acc.moment, Mul(load.value, Sub(x, load.position)))]
         ELSE acc
    ELSE IF load.type = "distributed" /\ Truthy(load.length)
    THEN IF Gt(x, load.position)
         THEN LET start == load.position
                  end == MinN(x, Add(start, load.length))
                  distLen == Sub(end, start)
              IN  IF Gt(distLen, Zero)
                  THEN LET forceChunk == Mul(load.value, distLen)
                           centroid == Add(start, distLen)
                       IN  [shear |-> Sub(acc.shear, forceChunk),
                            moment |-> Sub(acc.moment, Mul(forceChunk, Sub(x, centroid)))]
                  ELSE acc
         ELSE acc
    ELSE IF load.type = "moment"
    THEN IF Gt(x, load.position)
         THEN [shear |-> acc.shear, moment |-> Add(acc.moment, load.value)]
         ELSE acc
    ELSE acc

\* lines 117-143: one load to the left of x, on [shear, moment]
loadLeftOfP(acc, load, x) ==
    IF load.type = "point"
    THEN IF Gt(x, load.position)
         THEN [shear |-> Sub(acc.shear, load.value),
               moment |-> Sub(acc.moment, Mul(load.value, Sub(x, load.position)))]
         ELSE acc
    ELSE IF load.type = "distributed" /\ Truthy(load.length)
    THEN IF Gt(x, load.position)
         THEN LET start == load.position
                  end == MinN(x, Add(start, load.length))
                  distLen == Sub(end, start)
              IN  IF Gt(distLen, Zero)
                  THEN LET forceChunk == Mul(load.value, distLen)
                           centroid == Add(start, Div(distLen, R(2)))
                       IN  [shear |-> Sub(acc.shear, forceChunk),
                            moment |-> Sub(acc.moment, Mul(forceChunk, Sub(x, centroid)))]
                  ELSE acc
         ELSE acc
    ELSE IF load.type = "moment"
    THEN IF Gt(x, load.position)
         THEN [shear |-> acc.shear, moment |-> Add(acc.moment, load.value)]
         ELSE acc
    ELSE acc

RECURSIVE loadsLeftOfP(_, _, _, _)
loadsLeftOfP(loads, i, acc, x) ==
    IF i > Len(loads) THEN acc
    ELSE loadsLeftOfP(loads, i + 1, loadLeftOfP(acc, loads[i], x), x)

\* lines 96-112: reactions to the left of x
reactionsLeftOfP(state, reactions, x) ==
    LET z == [shear |-> Zero, moment |-> Zero]
    IN  IF state.type = "simple"
        THEN LET a == IF Gt(x, state.supportA)
                      THEN [shear |-> Add(z.shear, reactions.Ra),
                            moment |-> Add(z.moment,
                                           Mul(reactions.Ra, Sub(x, state.supportA)))]
                      ELSE z
             IN  IF Gt(x, state.supportB)
                 THEN [shear |-> Add(a.shear, reactions.Rb),
                       moment |-> Add(a.moment, Mul(reactions.Rb, Sub(x, state.supportB)))]
                 ELSE a
        ELSE IF state.type = "cantilever-left"
        THEN IF Gt(x, state.supportA)
             THEN [shear |-> Add(z.shear, reactions.Ra),
                   moment |-> Sub(Add(z.moment, Mul(reactions.Ra, Sub(x, state.supportA))),
                                  reactions.Ma)]
             ELSE z
        ELSE z

sectionP(state, reactions, x) ==
    LET v == loadsLeftOfP(state.loads, 1, reactionsLeftOfP(state, reactions, x), x)
    IN  [x |-> x, shear |-> v.shear, moment |-> v.moment]

(***************************************************************************)
(* Pass 1, src/utils/beamCalculator.ts lines 167-308                       *)
(***************************************************************************)
\* lines 178-207: shear of the reactions to the left of x
shearReactionsU(state, reactions, x) ==
    IF state.type = "simple"
    THEN LET a == IF Gt(x, state.supportA) THEN Add(Zero, reactions.Ra) ELSE Zero
         IN  IF Gt(x, state.supportB) THEN Add(a, reactions.Rb) ELSE a
    ELSE IF state.type = "cantilever-left"
    THEN IF Gt(x, state.supportA)
         THEN Add(Add(Zero, reactions.Ra), reactions.Ra)
         ELSE Zero
    ELSE Zero

\* mutant of shearLoadU: a distributed load is clamped to start at 0
shearLoadU_clampsAtZero(shear, load, x) ==
    IF load.type = "point"
    THEN IF Gt(x, load.position) THEN Sub(shear, load.value) ELSE shear
    ELSE IF load.type = "distributed" /\ Truthy(load.length)
    THEN IF Gt(x, load.position)
         THEN LET start == MaxN(load.position, Zero)
                  end == MinN(x, Add(load.position, load.length))
                  distLen == Sub(end, start)
              IN  IF Gt(distLen, Zero) THEN Sub(shear, Mul(load.value, distLen)) ELSE shear
         ELSE shear
    ELSE shear

\* lines 210-242: shear of one load to the left of x
shearLoadU(shear, load, x) ==
    IF load.type = "point"
    THEN IF Gt(x, load.position) THEN Sub(shear, load.value) ELSE shear
    ELSE IF load.type = "distributed" /\ Truthy(load.length)
    THEN IF Gt(x, load.position)
         THEN LET start == load.position
                  end == MinN(x, Add(start, load.length))
                  distLen == Sub(end, start)
              IN  IF Gt(distLen, Zero) THEN Sub(shear, Mul(load.value, distLen)) ELSE shear
         ELSE shear
    ELSE shear

RECURSIVE shearLoadsU(_, _, _, _)
shearLoadsU(loads, i, shear, x) ==
    IF i > Len(loads) THEN shear
    ELSE shearLoadsU(loads, i + 1, shearLoadU(shear, loads[i], x), x)

\* lines 260-275: M_internal of the reactions (x >= support)
momentReactionsU(state, reactions, x) ==
    IF state.type = "simple"
    THEN LET a == IF Ge(x, state.supportA)
                  THEN Add(Zero, Mul(reactions.Ra, Sub(x, state.supportA)))
                  ELSE Zero
         IN  IF Ge(x, state.supportB)
             THEN Add(a, Mul(reactions.Rb, Sub(x, state.supportB)))
             ELSE a
    ELSE IF state.type = "cantilever-left"
    THEN IF Ge(x, state.supportA)
         THEN Add(Add(Zero, Mul(reactions.Ra, Sub(x, state.supportA))), reactions.Ma)
         ELSE Zero
    ELSE Zero

\* lines 278-299: M_internal of one load to the left of x
momentLoadU(m, load, x) ==
    IF load.type = "point"
    THEN IF Gt(x, load.position)
         THEN Sub(m, Mul(load.value, Sub(x, load.position)))
         ELSE m
    ELSE IF load.type = "distributed" /\ Truthy(load.length)
    THEN IF Gt(x, load.position)
         THEN LET start == load.position
                  end == MinN(x, Add(start, load.length))
                  distLen == Sub(end, start)
              IN  IF Gt(distLen, Zero)
                  THEN LET forceChunk == Mul(load.value, distLen)
                           centroid == Add(start, Div(distLen, R(2)))
                       IN  Sub(m, Mul(forceChunk, Sub(x, centroid)))
                  ELSE m
         ELSE m
    ELSE IF load.type = "moment"
    THEN IF Gt(x, load.position) THEN Add(m, load.value) ELSE m
    ELSE m

RECURSIVE momentLoadsU(_, _, _, _)
momentLoadsU(loads, i, m, x) ==
    IF i > Len(loads) THEN m
    ELSE momentLoadsU(loads, i + 1, momentLoadU(m, loads[i], x), x)

sectionU(state, reactions, x) ==
    [x |-> x,
     shear |-> shearLoadsU(state.loads, 1, shearReactionsU(state, reactions, x), x),
     moment |-> momentLoadsU(state.loads, 1, momentReactionsU(state, reactions, x), x)]

section(engine, state, reactions, x) ==
    IF engine = "utils" THEN sectionU(state, reactions, x) ELSE sectionP(state, reactions, x)

\* the first loop, for (i = 0; i <= POINTS; i++) results.push(..): sample i is acc[i + 1]
RECURSIVE sweep(_, _, _, _, _)
sweep(engine, state, reactions, i, acc) ==
    IF i > POINTS THEN acc
    ELSE sweep(engine, state, reactions, i + 1,
               Append(acc, section(engine, state, reactions, sampleX(state, i))))

\* the samples pushed by the first loop, before the finalize loop touches them
pass1(engine, state) == sweep(engine, state, calculateReactions(engine, state), 0, <<>>)

(***************************************************************************)
(* Pass 2: double integration                                              *)
(***************************************************************************)
\* part_001 lines 160-175: integration[i] is acc[i + 1], results[i] is results[i + 1]
RECURSIVE integrateP(_, _, _, _, _, _, _)
integrateP(results, i, cumTheta, cumY, EI, dx, acc) ==
    IF i > POINTS THEN acc
    ELSE LET mPrev == results[i].moment
             mCurr == results[i + 1].moment
             avgM == Div(Add(mPrev, mCurr), R(2))
             theta == Add(cumTheta, Mul(Div(avgM, EI), dx))
             y == Add(cumY, Mul(theta, dx))
         IN  integrateP(results, i + 1, theta, y, EI, dx,
                        Append(acc, [theta |-> theta, y |-> y]))

\* utils/beamCalculator.ts lines 311-335: integrationData[i] is acc[i + 1]
RECURSIVE integrateU(_, _, _, _, _, _)
integrateU(results, i, theta0, y0, dx, acc) ==
    IF i > POINTS THEN acc
    ELSE LET mPrev == results[i].moment
             mCurr == results[i + 1].moment
             avgM == Div(Add(mPrev, mCurr), R(2))
             theta == Add(theta0, Mul(avgM, dx))
             tPrev == acc[i].theta
             avgT == Div(Add(tPrev, theta), R(2))
             y == Add(y0, Mul(avgT, dx))
         IN  integrateU(results, i + 1, theta, y, dx,
                        Append(acc, [theta |-> theta, y |-> y]))

integrate(engine, state, results) ==
    LET first == <<[theta |-> Zero, y |-> Zero]>>
    IN  IF engine = "utils"
        THEN integrateU(results, 1, Zero, Zero, sampleDx(state), first)
        ELSE integrateP(results, 1, Zero, Zero, stiffnessEI(state), sampleDx(state), first)

(***************************************************************************)
(* Boundary conditions (C1 and C2)                                         *)
(***************************************************************************)
\* Math.min(Math.max(Math.round(pos / dx), 0), POINTS)
getIdx(pos, dx) == MinN(MaxN(Round(Div(pos, dx)), Zero), R(POINTS))

\* the constants when no branch assigns them (let C1 = 0; let C2 = 0)
noConstants == [threw |-> FALSE, C1 |-> Zero, C2 |-> Zero]

\* reading a field of integration[idx] raises a TypeError when idx is NaN (the
\* element is undefined)
typeError == [threw |-> TRUE, C1 |-> Zero, C2 |-> Zero]

\* mutant of bcCantileverLeft: C1 takes the sign of the integrated slope
bcCantileverLeft_signC1(state, integ) ==
    LET idx == getIdx(state.supportA, sampleDx(state))
    IN  IF IsNaN(idx) THEN typeError
        ELSE LET val == integ[idx[1] + 1]
                 c1 == val.theta
             IN  [threw |-> FALSE, C1 |-> c1,
                  C2 |-> Sub(Neg(val.y), Mul(c1, state.supportA))]

\* part_001 lines 183-189, utils/beamCalculator.ts lines 343-355
bcCantileverLeft(state, integ) ==
    LET idx == getIdx(state.supportA, sampleDx(state))
    IN  IF IsNaN(idx) THEN typeError
        ELSE LET val == integ[idx[1] + 1]
                 c1 == Neg(val.theta)
             IN  [threw |-> FALSE, C1 |-> c1,
                  C2 |-> Sub(Neg(val.y), Mul(c1, state.supportA))]

\* part_001 lines 191-195, utils/beamCalculator.ts lines 357-361
bcCantileverRight(state, integ) ==
    LET val == integ[POINTS + 1]
        c1 == Neg(val.theta)
    IN  [threw |-> FALSE, C1 |-> c1, C2 |-> Sub(Neg(val.y), Mul(c1, state.length))]

\* mutant of bcSimple: C1 = (yB - yA) / (B - A)
bcSimple_signC1(state, integ) ==
    LET idxA == getIdx(state.supportA, sampleDx(state))
        idxB == getIdx(state.supportB, sampleDx(state))
    IN  IF IsNaN(idxA) \/ IsNaN(idxB) THEN typeError
        ELSE LET yA == integ[idxA[1] + 1].y
                 yB == integ[idxB[1] + 1].y
             IN  IF Gt(AbsN(Sub(state.supportB, state.supportA)), DegenerateTol)
                 THEN LET c1 == Div(Sub(yB, yA), Sub(state.supportB, state.supportA))
                      IN  [threw |-> FALSE, C1 |-> c1,
                           C2 |-> Sub(Neg(yA), Mul(c1, state.supportA))]
                 ELSE noConstants

\* part_001 line 208, utils/beamCalculator.ts line 376:
\* if (Math.abs(supportB - supportA) > 1e-4) solve for C1 and C2
integratorGuard(state) == Gt(AbsN(Sub(state.supportB, state.supportA)), DegenerateTol)

\* part_001 lines 197-212, utils/beamCalculator.ts lines 363-380
bcSimple(state, integ) ==
    LET idxA == getIdx(state.supportA, sampleDx(state))
        idxB == getIdx(state.supportB, sampleDx(state))
    IN  IF IsNaN(idxA) \/ IsNaN(idxB) THEN typeError
        ELSE LET yA == integ[idxA[1] + 1].y
                 yB == integ[idxB[1] + 1].y
             IN  IF integratorGuard(state)
                 THEN LET c1 == Div(Sub(yA, yB), Sub(state.supportB, state.supportA))
                      IN  [threw |-> FALSE, C1 |-> c1,
                           C2 |-> Sub(Neg(yA), Mul(c1, state.supportA))]
                 ELSE noConstants

boundaryConditions(state, integ) ==
    IF state.type = "cantilever-left" THEN bcCantileverLeft(state, integ)
    ELSE IF state.type = "cantilever-right" THEN bcCantileverRight(state, integ)
    ELSE IF state.type = "simple" THEN bcSimple(state, integ)
    ELSE noConstants

(***************************************************************************)
(* Finalize                                                                *)
(***************************************************************************)
MmPerM == 1000

\* the snap-to-zero tolerance: 1e-3 in part_001, 1e-5 in utils/beamCalculator.ts
SnapTolDenP == 1000

SnapTolDenU == 100000

snapTol(engine) == IF engine = "utils" THEN <<1, SnapTolDenU>> ELSE <<1, SnapTolDenP>>

\* if (Math.abs(v) < tol) v = 0
snap(v, tol) == IF Lt(AbsN(v), tol) THEN Zero ELSE v

\* mutant of scaledDeflection: the term C1 * x is left out
scaledDeflection_withoutC1(engine, state, r, item, bc) ==
    LET EI == stiffnessEI(state)
        defl0 == Add(item.y, bc.C2)
    IN  IF engine = "utils"
        THEN Mul(Div(defl0, EI), R(MmPerM))
        ELSE Mul(defl0, R(MmPerM))

\* the deflection in mm, before the snap
scaledDeflection(engine, state, r, item, bc) ==
    LET EI == stiffnessEI(state)
        defl0 == Add(Add(item.y, Mul(bc.C1, r.x)), bc.C2)
    IN  IF engine = "utils"
        THEN Mul(Div(defl0, EI), R(MmPerM))
        ELSE Mul(defl0, R(MmPerM))

finalizeSample(engine, state, r, item, bc) ==
    LET EI == stiffnessEI(state)
        tol == snapTol(engine)
        slope == IF engine = "utils"
                 THEN Div(Add(item.theta, bc.C1), EI)
                 ELSE Add(item.theta, bc.C1)
        deflection == scaledDeflection(engine, state, r, item, bc)
    IN  [x |-> r.x,
         shear |-> snap(r.shear, tol),
         moment |-> snap(r.moment, tol),
         slope |-> slope,
         deflection |-> snap(deflection, tol)]

\* what a call leaves: the returned samples 0..POINTS (none when it throws) and,
\* beside them, the locals of the call: results as the first loop pushed it
\* (pass1), integration, C1 and C2
diagramsRecord(engine, state, results, integ, bc) ==
    [threw |-> bc.threw,
     samples |-> IF bc.threw THEN <<>>
                 ELSE [i \in 0..POINTS |->
                         finalizeSample(engine, state, results[i + 1], integ[i + 1], bc)],
     pass1 |-> results, integration |-> integ, C1 |-> bc.C1, C2 |-> bc.C2]

\* calculateDiagrams: either it throws, or it returns samples 0..POINTS
calculateDiagrams(engine, state) ==
    LET results == pass1(engine, state)
        integ == integrate(engine, state, results)
        bc == boundaryConditions(state, integ)
    IN  diagramsRecord(engine, state, results, integ, bc)

(***************************************************************************)
(* Inputs: the BeamState values the engine is run on                       *)
(***************************************************************************)
\* at most MaxLoads loads on the beam
MaxLoads == 2

\* the beam has length 0 (an emptied Length input) or DxMax * POINTS, so that
\* the sample spacing dx is 0 or DxMax
DxMax == 2

SpanLength == DxMax * POINTS

Lengths == {R(0), R(SpanLength)}

\* support positions: left of the beam, at its start, between two samples
\* (3 when dx = 2), on an inner sample or between two, at the end
SupportPositions == {R(-1), R(0), R(3), R(POINTS), R(SpanLength)}

LoadValues == {R(-1), R(2)}

LoadPositions == {R(-1), R(0), R(3)}

\* length of a distributed load: 0 (falsy), inside the span, past the end
DistLengths == {R(0), R(2), R(SpanLength)}

LoadShape(type, value, position, length) ==
    [type |-> type, value |-> value, position |-> position, length |-> length]

LoadShapes ==
    {LoadShape(t, v, p, Undefined) : t \in {"point", "moment"}, v \in LoadValues,
                                     p \in LoadPositions}
    \cup
    {LoadShape("distributed", v, p, l) : v \in LoadValues, p \in LoadPositions,
                                         l \in DistLengths}

\* the shapes combined when the beam carries more than one load
CombinedShapeSeq ==
    <<LoadShape("point", R(2), R(3), Undefined),
      LoadShape("distributed", R(2), R(-1), R(SpanLength)),
      LoadShape("moment", R(2), R(3), Undefined)>>

CombinedShapes == {CombinedShapeSeq[j] : j \in DOMAIN CombinedShapeSeq}

\* the loads of the reference scenarios: a point load at midspan, a point load
\* at the end of the beam, a concentrated moment at midspan
MidSpan == Div(R(SpanLength), R(2))

ScenarioShapes ==
    {LoadShape("point", R(2), MidSpan, Undefined),
     LoadShape("point", R(2), R(SpanLength), Undefined),
     LoadShape("moment", R(-1), MidSpan, Undefined)}

\* types.ts lines 5-11; the id of the i-th load of an engine input is i
Load(id, shape) ==
    [id |-> id, type |-> shape.type, value |-> shape.value,
     position |-> shape.position, length |-> shape.length]

LoadListsOf(shapes, n) == {[i \in 1..n |-> Load(i, f[i])] : f \in [1..n -> shapes]}

\* n loads of the combined shapes, up to their order in the list: both engines
\* add the loads up one by one, and the sums do not depend on the order
CombinedLists(n) ==
    {[i \in 1..n |-> Load(i, CombinedShapeSeq[f[i]])] :
        f \in {g \in [1..n -> DOMAIN CombinedShapeSeq] :
                  \A i \in 1..(n - 1) : g[i] <= g[i + 1]}}

\* no load, any one load, a scenario load, or 2..MaxLoads loads of the combined shapes
LoadLists ==
    LoadListsOf(LoadShapes, 0) \cup LoadListsOf(LoadShapes, 1)
    \cup LoadListsOf(ScenarioShapes, 1)
    \cup UNION {CombinedLists(n) : n \in 2..MaxLoads}

\* constants.ts: MATERIALS[0].E = 200 GPa; PROFILES[0] 'Custom' has I = 0,
\* PROFILES[2] 'IPE 160' has I = 869 cm^4; the third stiffness is the Custom
\* profile with 50 typed into its I input
SteelE == 200

CustomI == 0

Ipe160I == 869

Stiffnesses ==
    {[E |-> R(SteelE), I |-> R(Ipe160I), customI |-> Undefined],
     [E |-> R(SteelE), I |-> R(CustomI), customI |-> Undefined],
     [E |-> R(SteelE), I |-> R(CustomI), customI |-> R(50)]}

\* types.ts lines 25-35
BeamState(length, type, supportA, supportB, loads, st) ==
    [length |-> length, type |-> type, supportA |-> supportA, supportB |-> supportB,
     loads |-> loads, material |-> [E |-> st.E], profile |-> [I |-> st.I],
     customI |-> st.customI]

\* supportB is read for 'simple' only and supportA for 'simple' and
\* 'cantilever-left' only; elsewhere they keep the values of the initial App state
\* supports closer than, exactly at and beyond the degeneracy tolerance 1e-4
NearbySupports ==
    {<<Zero, <<1, 2 * DegenerateTolDen>>>>, <<Zero, DegenerateTol>>,
     <<DegenerateTol, Zero>>, <<Zero, <<2, DegenerateTolDen>>>>}

\* the supports tried on a beam of length 0: left of it, on it, right of it
ZeroSpanSupports == {R(-1), R(0), R(3)}

SupportsOf(l) == IF l = Zero THEN ZeroSpanSupports ELSE SupportPositions

Geometries ==
    UNION {{<<l, "simple", a, b>> : a \in SupportsOf(l), b \in SupportsOf(l)} : l \in Lengths}
    \cup {<<R(SpanLength), "simple", p[1], p[2]>> : p \in NearbySupports}
    \cup UNION {{<<l, "cantilever-left", a, l>> : a \in SupportsOf(l)} : l \in Lengths}
    \cup {<<l, "cantilever-right", Zero, l>> : l \in Lengths}

\* loads whose effects fall below the snap tolerances: 5e-6 (under 1e-5) and
\* 5e-4 (between 1e-5 and 1e-3), carried by the Custom profile with 0.5 typed
\* into its I input (EI = 1)
TinyValues == {<<1, 200000>>, <<-1, 2000>>}

TinyShapes == {LoadShape("point", v, R(3), Undefined) : v \in TinyValues}

SoftStiffness == [E |-> R(SteelE), I |-> R(CustomI), customI |-> <<1, 2>>]

BeamStates ==
    {BeamState(g[1], g[2], g[3], g[4], ls, st) :
        g \in Geometries, ls \in LoadLists, st \in Stiffnesses}
    \cup {BeamState(g[1], g[2], g[3], g[4], ls, SoftStiffness) :
            g \in Geometries, ls \in LoadListsOf(TinyShapes, 1)}

Engines == {"utils", "part_001"}

(***************************************************************************)
(* The engine run on one input: calculateReactions, then calculateDiagrams *)
(***************************************************************************)
VARIABLES engine, beamState, pc, reactions, results, selectedLoadId, now

vars == <<engine, beamState, pc, reactions, results, selectedLoadId, now>>

\* useState<string | null>(null): no load is selected
NoSelection == 0

\* the first reading of Date.now(); the ids '1' and '2' of the initial loads
\* lie below every reading
ClockStart == 3

NoResults ==
    [threw |-> FALSE, samples |-> <<>>, pass1 |-> <<>>, integration |-> <<>>,
     C1 |-> Zero, C2 |-> Zero]

Init ==
    /\ engine \in Engines
    /\ beamState \in BeamStates
    /\ pc = "ready"
    /\ reactions = Reactions(Zero, Zero, Zero)
    /\ results = NoResults
    /\ selectedLoadId = NoSelection
    /\ now = ClockStart

CallReactions ==
    /\ pc = "ready"
    /\ reactions' = calculateReactions(engine, beamState)
    /\ pc' = "reactions"
    /\ UNCHANGED <<engine, beamState, results, selectedLoadId, now>>

CallDiagrams ==
    /\ pc = "reactions"
    /\ results' = calculateDiagrams(engine, beamState)
    /\ pc' = IF results'.threw THEN "threw" ELSE "done"
    /\ UNCHANGED <<engine, beamState, reactions, selectedLoadId, now>>

Next == CallReactions \/ CallDiagrams

Spec == Init /\ [][Next]_vars

(***************************************************************************)
(* Statics of the loads, as the specification states them                  *)
(***************************************************************************)
RECURSIVE SumSeq(_)
SumSeq(seq) == IF seq = <<>> THEN Zero ELSE Add(Head(seq), SumSeq(Tail(seq)))

\* downward force of a load: value, or value x length; a moment carries none
LoadForce(load) ==
    IF load.type = "point" THEN load.value
    ELSE IF load.type = "distributed" /\ load.length # Undefined
    THEN Mul(load.value, load.length)
    ELSE Zero

\* where the force of a load acts: its position, or the centroid of its span
LoadCentre(load) ==
    IF load.type = "distributed" /\ load.length # Undefined
    THEN Add(load.position, Div(load.length, R(2)))
    ELSE load.position

\* counter-clockwise moment of a load about the point q
LoadMomentAbout(load, q) ==
    IF load.type = "moment" THEN load.value
    ELSE Neg(Mul(LoadForce(load), Sub(LoadCentre(load), q)))

TotalDownwardForce(loads) == SumSeq([i \in 1..Len(loads) |-> LoadForce(loads[i])])

SumLoadMomentsAbout(loads, q) ==
    SumSeq([i \in 1..Len(loads) |-> LoadMomentAbout(loads[i], q)])

\* counter-clockwise moment about q of the reactions placed at their supports
ReactionMomentsAbout(state, r, q) ==
    IF state.type = "simple"
    THEN Add(Mul(r.Ra, Sub(state.supportA, q)), Mul(r.Rb, Sub(state.supportB, q)))
    ELSE IF state.type = "cantilever-left"
    THEN Add(Mul(r.Ra, Sub(state.supportA, q)), r.Ma)
    ELSE Add(Mul(r.Rb, Sub(state.length, q)), r.Ma)

\* a Simple beam whose supports are closer than the tolerance 1e-4
CoincidentSupports(state) ==
    state.type = "simple" /\ Lt(AbsN(Sub(state.supportB, state.supportA)), DegenerateTol)

\* a Simple beam whose support B is not to the right of support A
InvertedSupports(state) ==
    state.type = "simple" /\ ~Gt(state.supportB, state.supportA)

ReactionsReturned == pc # "ready"

ZeroReactions == Reactions(Zero, Zero, Zero)

(***************************************************************************)
(* Claims on calculateReactions                                            *)
(***************************************************************************)
\* C1 (as stated): for every BeamState, Ra + Rb equals the total downward force
\* (point values plus value x length of the distributed loads).
C1_Original ==
    ReactionsReturned =>
        Add(reactions.Ra, reactions.Rb) = TotalDownwardForce(beamState.loads)

\* C1 (amended): Ra + Rb equals the total downward force for every BeamState
\* except a Simple one with coincident supports, where both reactions are 0;
\* concentrated moments contribute nothing to the sum.
C1_ForceEquilibrium ==
    ReactionsReturned =>
        IF CoincidentSupports(beamState)
        THEN Add(reactions.Ra, reactions.Rb) = Zero
        ELSE Add(reactions.Ra, reactions.Rb) = TotalDownwardForce(beamState.loads)

\* a Simple beam on two distinct supports carrying a force and a moment
C1_Witness ==
    /\ ReactionsReturned
    /\ beamState.type = "simple"
    /\ ~CoincidentSupports(beamState)
    /\ \E i, j \in 1..Len(beamState.loads) :
          beamState.loads[i].type = "moment" /\ beamState.loads[j].type # "moment"
    /\ TotalDownwardForce(beamState.loads) # Zero
    /\ reactions.Ra # Zero
    /\ reactions.Rb # Zero

\* the points of the span about which moments are taken
MomentPoints == {Zero, R(1), beamState.supportA, beamState.length}

MomentSumAbout(q) ==
    Add(ReactionMomentsAbout(beamState, reactions, q),
        SumLoadMomentsAbout(beamState.loads, q))

\* C2 (as stated): for every BeamState the moments of the reactions and of the
\* loads about any point of the span sum to zero.
C2_Original ==
    ReactionsReturned => \A q \in MomentPoints : MomentSumAbout(q) = Zero

\* C2 (amended): the moments of the reactions (placed at their supports) and of
\* the loads about any point sum to zero for every BeamState except a Simple
\* one with coincident supports, where the sum is that of the loads alone.
C2_MomentEquilibrium ==
    ReactionsReturned =>
        \A q \in MomentPoints :
            IF CoincidentSupports(beamState)
            THEN MomentSumAbout(q) = SumLoadMomentsAbout(beamState.loads, q)
            ELSE MomentSumAbout(q) = Zero

\* a right cantilever whose wall carries a force and a couple
C2_Witness ==
    /\ ReactionsReturned
    /\ beamState.type = "cantilever-right"
    /\ Gt(beamState.length, Zero)
    /\ reactions.Rb # Zero
    /\ reactions.Ma # Zero
    /\ SumLoadMomentsAbout(beamState.loads, R(1)) # Zero

\* the reference formulas of the specification, section 4.1
ReferenceReactions(state) ==
    LET total == TotalDownwardForce(state.loads)
        S == SumLoadMomentsAbout(state.loads, state.supportA)
        Sw == SumLoadMomentsAbout(state.loads, state.length)
    IN  IF state.type = "simple"
        THEN LET vB == Div(Neg(S), Sub(state.supportB, state.supportA))
             IN  Reactions(Sub(total, vB), vB, Zero)
        ELSE IF state.type = "cantilever-left"
        THEN Reactions(total, Zero, Neg(S))
        ELSE Reactions(Zero, total, Neg(Sw))

C4_Original ==
    (ReactionsReturned /\ (CoincidentSupports(beamState) \/ InvertedSupports(beamState))) =>
        reactions = ZeroReactions

\* C4 (amended): a Simple beam whose supports coincide (|supportB - supportA| <
\* 1e-4) gets Ra = Rb = Ma = 0 whatever the loads, all finite; inverted supports
\* at least 1e-4 apart do not take the fallback: Rb = -S/(supportB - supportA).
C4_DegenerateFallback ==
    ReactionsReturned =>
        /\ CoincidentSupports(beamState) => reactions = ZeroReactions
        /\ (InvertedSupports(beamState) /\ ~CoincidentSupports(beamState)) =>
              reactions.Rb = Div(Neg(SumLoadMomentsAbout(beamState.loads, beamState.supportA)),
                                 Sub(beamState.supportB, beamState.supportA))

\* coincident supports under a load that has a moment about them
C4_Witness ==
    /\ ReactionsReturned
    /\ CoincidentSupports(beamState)
    /\ TotalDownwardForce(beamState.loads) # Zero
    /\ SumLoadMomentsAbout(beamState.loads, beamState.supportA) # Zero
    /\ reactions = ZeroReactions

(***************************************************************************)
(* Claims on calculateDiagrams                                             *)
(***************************************************************************)
DiagramsCalled == pc \in {"done", "threw"}

DiagramsReturned == pc = "done"

PositiveLength == Gt(beamState.length, Zero)

PositiveEI == Gt(stiffnessEI(beamState), Zero)

Samples == results.samples

\* the constants C1 and C2 the call has solved for
SolvedConstants == [C1 |-> results.C1, C2 |-> results.C2]

InsideSpan(pos) == Ge(pos, Zero) /\ Ge(beamState.length, pos)

\* C5: a Simple beam with supportA = supportB has C1 = C2 = 0 and deflection 0
\* at every sample, for any loads (stated for a support inside a span of
\* positive length and for positive stiffness).
C5_Original ==
    (DiagramsCalled /\ beamState.type = "simple" /\ beamState.supportA = beamState.supportB
        /\ InsideSpan(beamState.supportA) /\ PositiveLength /\ PositiveEI) =>
        /\ DiagramsReturned
        /\ SolvedConstants.C1 = Zero
        /\ SolvedConstants.C2 = Zero
        /\ \A i \in 0..POINTS : Samples[i].deflection = Zero

\* C6: whenever EI is zero, slope and deflection are 0 at every sample and never
\* infinite or not-a-number (stated for positive length).
C6_Original ==
    (DiagramsReturned /\ PositiveLength /\ stiffnessEI(beamState) = Zero) =>
        \A i \in 0..POINTS : Samples[i].slope = Zero /\ Samples[i].deflection = Zero

\* C7: the engine never raises: for every BeamState (length 0 included)
\* calculateDiagrams runs to completion and returns a value, the support-index
\* lookup yielding an index in 0..POINTS (stated for supports inside the span).
C7_Original ==
    (DiagramsCalled /\ InsideSpan(beamState.supportA) /\ InsideSpan(beamState.supportB)) =>
        /\ pc # "threw"
        /\ \A s \in {beamState.supportA, beamState.supportB} :
              LET idx == getIdx(s, sampleDx(beamState))
              IN  IsFinite(idx) /\ idx[2] = 1 /\ idx[1] \in 0..POINTS

\* the indices of the samples closest to the position pos
ClosestSamples(pos) ==
    {i \in 0..POINTS :
        \A j \in 0..POINTS :
            ~Lt(AbsN(Sub(Samples[j].x, pos)), AbsN(Sub(Samples[i].x, pos)))}

\* C8: for positive length calculateDiagrams returns exactly POINTS + 1 samples
\* with x[i] = i x length / POINTS: strictly ascending, uniformly spaced, the
\* first at 0 and the last at length.
C8_ResultShape ==
    (DiagramsCalled /\ PositiveLength) =>
        /\ DiagramsReturned
        /\ DOMAIN Samples = 0..POINTS
        /\ Samples[0].x = Zero
        /\ Samples[POINTS].x = beamState.length
        /\ \A i \in 0..POINTS : Samples[i].x = Div(Mul(R(i), beamState.length), R(POINTS))
        /\ \A i \in 1..POINTS :
              /\ Lt(Samples[i - 1].x, Samples[i].x)
              /\ Sub(Samples[i].x, Samples[i - 1].x) = Div(beamState.length, R(POINTS))

\* a beam of positive length under a load, its diagrams returned
C8_Witness ==
    /\ DiagramsReturned
    /\ PositiveLength
    /\ beamState.loads # <<>>
    /\ \E i \in 0..POINTS : Samples[i].moment # Zero

ZeroSample(r) ==
    r.shear = Zero /\ r.moment = Zero /\ r.slope = Zero /\ r.deflection = Zero

\* C11: for every BeamState with an empty load list and positive flexural
\* stiffness (any support kind, any support positions) calculateReactions
\* returns Ra = Rb = Ma = 0 and calculateDiagrams returns shear = moment =
\* slope = deflection = 0 at every sample (stated for supports inside the span).
C11_Original ==
    (beamState.loads = <<>> /\ PositiveEI
        /\ InsideSpan(beamState.supportA) /\ InsideSpan(beamState.supportB)) =>
        /\ ReactionsReturned => reactions = ZeroReactions
        /\ DiagramsCalled =>
              /\ DiagramsReturned
              /\ \A i \in 0..POINTS : ZeroSample(Samples[i])

\* a Simple beam of positive length on the two ends of its span
SymmetricSpan ==
    /\ beamState.type = "simple"
    /\ PositiveLength
    /\ beamState.supportA = Zero
    /\ beamState.supportB = beamState.length

\* a single point load at midspan
CentralPointLoad ==
    /\ Len(beamState.loads) = 1
    /\ beamState.loads[1].type = "point"
    /\ beamState.loads[1].position = Div(beamState.length, R(2))

\* a single uniform load over the whole span
UniformLoad ==
    /\ Len(beamState.loads) = 1
    /\ beamState.loads[1].type = "distributed"
    /\ beamState.loads[1].position = Zero
    /\ beamState.loads[1].length = beamState.length

\* P x L / 4 for the central point load, w x L^2 / 8 for the uniform load
MidspanMoment ==
    IF CentralPointLoad
    THEN Div(Mul(beamState.loads[1].value, beamState.length), R(4))
    ELSE Div(Mul(beamState.loads[1].value, Mul(beamState.length, beamState.length)), R(8))

\* C12: on a Simple beam with supports at 0 and length L carrying a single
\* central point load P or a uniform load w over the whole span, Ra = Rb = half
\* the total load, the moment at the midspan sample is P x L/4 respectively
\* w x L^2/8, and the moment at the first and at the last sample is 0.
C12_ClosedForms ==
    (SymmetricSpan /\ (CentralPointLoad \/ UniformLoad)) =>
        /\ ReactionsReturned =>
              /\ reactions.Ra = Div(TotalDownwardForce(beamState.loads), R(2))
              /\ reactions.Rb = reactions.Ra
        /\ DiagramsCalled =>
              /\ DiagramsReturned
              /\ Samples[0].moment = Zero
              /\ Samples[POINTS].moment = Zero
              /\ \A i \in 0..POINTS :
                    Samples[i].x = Div(beamState.length, R(2)) =>
                        Samples[i].moment = MidspanMoment

\* the central point load on the symmetric span, its midspan moment returned
C12_Witness ==
    /\ DiagramsReturned
    /\ SymmetricSpan
    /\ CentralPointLoad
    /\ reactions.Ra # Zero
    /\ \E i \in 1..(POINTS - 1) :
          /\ Samples[i].x = Div(beamState.length, R(2))
          /\ Samples[i].moment = MidspanMoment
          /\ Samples[i].moment # Zero

\* the uniform load on the symmetric span, its midspan moment returned
C12_WitnessUniform ==
    /\ DiagramsReturned
    /\ SymmetricSpan
    /\ UniformLoad
    /\ \E i \in 1..(POINTS - 1) :
          /\ Samples[i].x = Div(beamState.length, R(2))
          /\ Samples[i].moment = MidspanMoment
          /\ Samples[i].moment # Zero

\* a left cantilever fixed at 0 carrying a single point load at its free end
EndLoadedCantilever ==
    /\ beamState.type = "cantilever-left"
    /\ PositiveLength
    /\ beamState.supportA = Zero
    /\ Len(beamState.loads) = 1
    /\ beamState.loads[1].type = "point"
    /\ beamState.loads[1].position = beamState.length

\* C13: for CantileverFixedLeft with supportA = 0 and a single point load P at
\* the free end (position = length L), the returned moment immediately right
\* of the wall is P x L (at the wall sample or the next one, up to the P x dx
\* the curve changes over one spacing) and the moment at the last sample is 0.
C13_Original ==
    (DiagramsCalled /\ EndLoadedCantilever /\ PositiveEI) =>
        /\ DiagramsReturned
        /\ \E i \in {0, 1} :
              ~Gt(AbsN(Sub(Samples[i].moment,
                           Mul(beamState.loads[1].value, beamState.length))),
                  AbsN(Mul(beamState.loads[1].value, sampleDx(beamState))))
        /\ Samples[POINTS].moment = Zero

(***************************************************************************)
(* Claims on pass 1 (values before the snap of the finalize loop)          *)
(***************************************************************************)
\* sample i as the first loop pushed it
PreSnap(i) == results.pass1[i + 1]

LoadIndices == 1..Len(beamState.loads)

\* the distributed loads the engine acts on
IsDistributed(load) == load.type = "distributed" /\ Truthy(load.length)

\* where the vertical reactions act
SupportPoints ==
    IF beamState.type = "simple" THEN {beamState.supportA, beamState.supportB}
    ELSE IF beamState.type = "cantilever-left" THEN {beamState.supportA}
    ELSE {beamState.length}

\* where the fixed-end moment acts
FixedEnds ==
    IF beamState.type = "simple" THEN {}
    ELSE IF beamState.type = "cantilever-left" THEN {beamState.supportA}
    ELSE {beamState.length}

\* p in (x[i], x[i+1])
StrictlyInside(p, i) == Lt(PreSnap(i).x, p) /\ Lt(p, PreSnap(i + 1).x)

\* p in [x[i], x[i+1])
InHalfOpen(p, i) == Ge(p, PreSnap(i).x) /\ Lt(p, PreSnap(i + 1).x)

\* the span of a distributed load meets [x[i], x[i+1]] in more than a point
Overlaps(load, i) ==
    /\ IsDistributed(load)
    /\ Lt(load.position, PreSnap(i + 1).x)
    /\ Gt(Add(load.position, load.length), PreSnap(i).x)

\* the span of a distributed load contains [x[i], x[i+1]]
Covers(load, i) ==
    /\ IsDistributed(load)
    /\ Ge(PreSnap(i).x, load.position)
    /\ Ge(Add(load.position, load.length), PreSnap(i + 1).x)

\* nothing acts between samples i and i+1
SmoothInterval(i) ==
    /\ \A k \in LoadIndices :
          LET load == beamState.loads[k]
          IN  /\ load.type = "point" => ~StrictlyInside(load.position, i)
              /\ load.type = "moment" => ~InHalfOpen(load.position, i)
              /\ ~Overlaps(load, i)
    /\ \A p \in SupportPoints : ~StrictlyInside(p, i)
    /\ \A p \in FixedEnds : ~InHalfOpen(p, i)

\* one distributed load covers the interval, no other overlaps it, and no
\* point load or support lies in [x[i], x[i+1])
UniformInterval(k, i) ==
    /\ Covers(beamState.loads[k], i)
    /\ \A j \in LoadIndices \ {k} : ~Overlaps(beamState.loads[j], i)
    /\ \A j \in LoadIndices :
          beamState.loads[j].type = "point" => ~InHalfOpen(beamState.loads[j].position, i)
    /\ \A p \in SupportPoints : ~InHalfOpen(p, i)

\* C14: on the values before the snap, for every support kind and consecutive
\* samples i, i+1: when no point load or support lies strictly inside
\* (x[i], x[i+1]), no concentrated or fixed-end moment in [x[i], x[i+1]) and no
\* distributed load overlaps the interval, moment[i+1] - moment[i] =
\* shear[i+1] x dx; when a single distributed load w covers the interval and
\* no point load or support lies in [x[i], x[i+1]), shear[i+1] - shear[i] =
\* -w x dx.
C14_Original ==
    (DiagramsCalled /\ PositiveLength) =>
        \A i \in 0..(POINTS - 1) :
            /\ SmoothInterval(i) =>
                  Sub(PreSnap(i + 1).moment, PreSnap(i).moment) =
                      Mul(PreSnap(i + 1).shear, sampleDx(beamState))
            /\ \A k \in LoadIndices :
                  UniformInterval(k, i) =>
                      Sub(PreSnap(i + 1).shear, PreSnap(i).shear) =
                          Neg(Mul(beamState.loads[k].value, sampleDx(beamState)))

\* the loads without the k-th
RemoveAt(loads, k) == SubSeq(loads, 1, k - 1) \o SubSeq(loads, k + 1, Len(loads))

\* shear and moment of the section at x under the given loads and reactions
SectionValues(loads, r, x) ==
    LET v == section(engine, [beamState EXCEPT !.loads = loads], r, x)
    IN  [shear |-> v.shear, moment |-> v.moment]

PreSnapValues(i) == [shear |-> PreSnap(i).shear, moment |-> PreSnap(i).moment]

\* C16: at a sample whose position equals the position of a point load, of a
\* concentrated moment, of the start of a distributed load or of a support
\* (the fixed support with its reaction moment included), that load or
\* reaction contributes nothing to the shear or the moment of the sample (the
\* values are those of the beam without it); the whole effect of a point load
\* or a concentrated moment appears at the next sample.
C16_Original ==
    (DiagramsCalled /\ PositiveLength) =>
        \A i \in 0..POINTS :
            LET x == PreSnap(i).x
            IN  /\ \A k \in LoadIndices :
                      beamState.loads[k].position = x =>
                          SectionValues(RemoveAt(beamState.loads, k), reactions, x)
                              = PreSnapValues(i)
                /\ (beamState.type # "cantilever-right" /\ beamState.supportA = x) =>
                      SectionValues(beamState.loads,
                                    [reactions EXCEPT !.Ra = Zero, !.Ma = Zero], x)
                          = PreSnapValues(i)
                /\ (beamState.type = "simple" /\ beamState.supportB = x) =>
                      SectionValues(beamState.loads, [reactions EXCEPT !.Rb = Zero], x)
                          = PreSnapValues(i)
                /\ \A k \in LoadIndices :
                      (i < POINTS /\ beamState.loads[k].position = x) =>
                          LET load == beamState.loads[k]
                              next == PreSnap(i + 1)
                              without == SectionValues(RemoveAt(beamState.loads, k),
                                                       reactions, next.x)
                          IN  /\ load.type = "point" =>
                                    /\ Sub(without.shear, next.shear) = load.value
                                    /\ Sub(without.moment, next.moment) =
                                          Mul(load.value, sampleDx(beamState))
                              /\ load.type = "moment" =>
                                    /\ without.shear = next.shear
                                    /\ Sub(next.moment, without.moment) = load.value

\* the part of a distributed load to the left of x, as the specification
\* states it: min(x, position + length) - position when positive
Overlap(load, x) ==
    MaxN(Zero, Sub(MinN(x, Add(load.position, load.length)), load.position))

\* downward force of one load on the free body to the left of x
LoadForceLeftOf(load, x) ==
    IF load.type = "point"
    THEN IF Lt(load.position, x) THEN load.value ELSE Zero
    ELSE IF IsDistributed(load)
    THEN Mul(load.value, Overlap(load, x))
    ELSE Zero

\* the vertical reactions at supports p < x, each once
ReactionForceLeftOf(x) ==
    IF beamState.type = "simple"
    THEN Add(IF Lt(beamState.supportA, x) THEN reactions.Ra ELSE Zero,
             IF Lt(beamState.supportB, x) THEN reactions.Rb ELSE Zero)
    ELSE IF beamState.type = "cantilever-left"
    THEN IF Lt(beamState.supportA, x) THEN reactions.Ra ELSE Zero
    ELSE Zero

ShearBySuperposition(x) ==
    Sub(ReactionForceLeftOf(x),
        SumSeq([k \in LoadIndices |-> LoadForceLeftOf(beamState.loads[k], x)]))

\* C17: for every support kind and every sample x the shear before the snap is
\* the sum of the vertical reactions at supports p < x (Ra at supportA and Rb
\* at supportB for Simple, Ra at supportA for CantileverFixedLeft, none for
\* CantileverFixedRight), each added once, minus the point loads at positions
\* < x, minus intensity x overlap of every distributed load (stated for
\* positive length and stiffness and supportA inside the span).
C17_Original ==
    (DiagramsCalled /\ PositiveLength /\ PositiveEI /\ InsideSpan(beamState.supportA)) =>
        \A i \in 0..POINTS : PreSnap(i).shear = ShearBySuperposition(PreSnap(i).x)

\* moment about the section at x of one load on the free body to its left
LoadMomentLeftOf(load, x) ==
    IF load.type = "point"
    THEN IF Lt(load.position, x)
         THEN Neg(Mul(load.value, Sub(x, load.position)))
         ELSE Zero
    ELSE IF IsDistributed(load)
    THEN LET overlap == Overlap(load, x)
             centroid == Add(load.position, Div(overlap, R(2)))
         IN  Neg(Mul(Mul(load.value, overlap), Sub(x, centroid)))
    ELSE IF load.type = "moment"
    THEN IF Lt(load.position, x) THEN load.value ELSE Zero
    ELSE Zero

LoadMomentsLeftOf(x) ==
    SumSeq([k \in LoadIndices |-> LoadMomentLeftOf(beamState.loads[k], x)])

\* C18: for CantileverFixedLeft, at every sample x to the right of supportA the
\* moment before the snap is +Ma + Ra x (x - supportA) plus the contributions
\* of the loads, Ra and Ma being the values calculateReactions returns: Ma
\* enters with positive sign, full magnitude and no distance scaling (stated
\* for positive length and stiffness and supportA inside the span).
C18_Original ==
    (DiagramsCalled /\ beamState.type = "cantilever-left"
        /\ PositiveLength /\ PositiveEI /\ InsideSpan(beamState.supportA)) =>
        \A i \in 0..POINTS :
            Gt(PreSnap(i).x, beamState.supportA) =>
                PreSnap(i).moment =
                    Add(Add(reactions.Ma,
                            Mul(reactions.Ra, Sub(PreSnap(i).x, beamState.supportA))),
                        LoadMomentsLeftOf(PreSnap(i).x))

\* what the k-th load takes off the shear and the moment of sample i
Contribution(k, i) ==
    LET without == SectionValues(RemoveAt(beamState.loads, k), reactions, PreSnap(i).x)
    IN  [shear |-> Sub(without.shear, PreSnap(i).shear),
         moment |-> Sub(without.moment, PreSnap(i).moment)]

\* a force at the centroid of the piece [lo, lo + len] of a distributed load
PieceContribution(load, lo, len, x) ==
    [shear |-> Mul(load.value, len),
     moment |-> Mul(Mul(load.value, len), Sub(x, Add(lo, Div(len, R(2)))))]

\* C19 (as stated): for every distributed load (negative positions and spans
\* past length included) and every sample x, its contribution is intensity x
\* the length of the intersection of [position, position + length] with [0, x],
\* acting for the moment at the centroid of that intersection.
C19_Original ==
    (DiagramsCalled /\ PositiveLength /\ PositiveEI) =>
        \A i \in 0..POINTS : \A k \in LoadIndices :
            beamState.loads[k].type = "distributed" =>
                LET load == beamState.loads[k]
                    x == PreSnap(i).x
                    lo == MaxN(load.position, Zero)
                    hi == MinN(x, Add(load.position, load.length))
                    len == MaxN(Zero, Sub(hi, lo))
                IN  Contribution(k, i) = PieceContribution(load, lo, len, x)

\* C19 (amended): for every distributed load (negative positions and spans
\* past length included) and every sample x, its contribution is intensity x
\* overlap with overlap = min(x, position + length) - position when positive
\* (the part of the load left of x, the part left of 0 included), acting for
\* the moment at position + overlap/2; nothing is clamped to [0, length].
C19_DistributedOverlap ==
    DiagramsCalled =>
        \A i \in 0..POINTS : \A k \in LoadIndices :
            beamState.loads[k].type = "distributed" =>
                LET load == beamState.loads[k]
                    x == PreSnap(i).x
                IN  Contribution(k, i) =
                        PieceContribution(load, load.position, Overlap(load, x), x)

\* a distributed load starting left of the beam: the part left of 0 already
\* acts on the first sample
C19_Witness ==
    /\ DiagramsReturned
    /\ PositiveLength
    /\ \E k \in LoadIndices :
          /\ beamState.loads[k].type = "distributed"
          /\ Lt(beamState.loads[k].position, Zero)
          /\ Contribution(k, 0).shear # Zero
          /\ Contribution(k, 0).moment # Zero
          /\ Contribution(k, POINTS).shear # Contribution(k, 0).shear

(***************************************************************************)
(* Claims on pass 2                                                        *)
(***************************************************************************)
\* the recurrences of the specification, section 4.2, on the moments before the
\* snap: theta0[i] = theta0[i-1] + ((M[i-1] + M[i]) / 2 / EI) x dx and
\* y0[i] = y0[i-1] + theta0[i] x dx, from theta0[0] = y0[0] = 0; entry i + 1 of
\* the sequence is sample i
RECURSIVE RunningIntegrals(_, _)
RunningIntegrals(i, acc) ==
    IF i > POINTS THEN acc
    ELSE LET prev == acc[i]
             avg == Div(Add(PreSnap(i - 1).moment, PreSnap(i).moment), R(2))
             theta0 == Add(prev.theta,
                           Mul(Div(avg, stiffnessEI(beamState)), sampleDx(beamState)))
             y0 == Add(prev.y, Mul(theta0, sampleDx(beamState)))
         IN  RunningIntegrals(i + 1, Append(acc, [theta |-> theta0, y |-> y0]))

\* C20: with M the moments before the snap and EI > 0, calculateDiagrams
\* computes theta0 and y0 by the recurrences above and returns, for every
\* sample i and every support kind, slope[i] = theta0[i] + C1 and
\* deflection[i] = (y0[i] + C1 x x[i] + C2) x 1000 (then snapped), C1 and C2
\* being the constants the boundary conditions give for theta0 and y0 (stated
\* for positive length and distinct supports inside the span).
C20_Original ==
    (DiagramsReturned /\ PositiveLength /\ PositiveEI
        /\ InsideSpan(beamState.supportA) /\ InsideSpan(beamState.supportB)
        /\ beamState.supportA # beamState.supportB) =>
        LET run == RunningIntegrals(1, <<[theta |-> Zero, y |-> Zero]>>)
            bc == boundaryConditions(beamState, run)
        IN  \A i \in 0..POINTS :
                /\ Samples[i].slope = Add(run[i + 1].theta, bc.C1)
                /\ Samples[i].deflection =
                      snap(Mul(Add(Add(run[i + 1].y, Mul(bc.C1, Samples[i].x)), bc.C2),
                               R(MmPerM)),
                           snapTol(engine))


SnappedFields == {"shear", "moment", "deflection"}

\* the three values of sample i as they stand just before the snap
BeforeSnap(i) ==
    [shear |-> PreSnap(i).shear,
     moment |-> PreSnap(i).moment,
     deflection |-> scaledDeflection(engine, beamState, results.pass1[i + 1],
                                     results.integration[i + 1], SolvedConstants)]

ZeroOrAtLeastTol(v) == v = Zero \/ Ge(AbsN(v), snapTol(engine))

SnapHolds(i, f) ==
    /\ ZeroOrAtLeastTol(Samples[i][f])
    /\ Ge(AbsN(BeforeSnap(i)[f]), snapTol(engine)) => Samples[i][f] = BeforeSnap(i)[f]

\* C21: in every returned sample, each of shear, moment and deflection (in mm)
\* is either exactly 0 or of magnitude at least the tolerance (1e-3 in part_001,
\* 1e-5 in utils), and a value of magnitude at least the tolerance is returned
\* unchanged (stated for supports inside a span of positive length).
C21_Original ==
    (/\ DiagramsReturned /\ PositiveLength
     /\ InsideSpan(beamState.supportA) /\ InsideSpan(beamState.supportB)) =>
        \A i \in 0..POINTS : \A f \in SnappedFields : SnapHolds(i, f)

\* the same for positive stiffness, where every value is a finite number
C21_PositiveStiffness ==
    (DiagramsReturned /\ PositiveEI) =>
        \A i \in 0..POINTS : \A f \in SnappedFields : SnapHolds(i, f)

\* a value below the tolerance has been snapped and another returned as it was
C21_SnapFires ==
    /\ DiagramsReturned /\ PositiveEI
    /\ \E i \in 0..POINTS : \E f \in SnappedFields :
          BeforeSnap(i)[f] # Zero /\ Samples[i][f] = Zero
    /\ \E i \in 0..POINTS : \E f \in SnappedFields :
          Samples[i][f] # Zero /\ Samples[i][f] = BeforeSnap(i)[f]


SimpleSolved == beamState.type = "simple" /\ ~Lt(AbsN(Sub(beamState.supportB, beamState.supportA)), DegenerateTol)

EnginesAgreeOnReactions == calculateReactionsU(beamState) = calculateReactionsP(beamState)

\* C22: the two calculateReactions return the same Ra, Rb and Ma for every
\* BeamState, and for a Simple beam the closed-form Rb from moments about
\* x = 0 (utils line 54) equals the pivot-about-supportA reactionB (line 81)
\* (stated for supports inside a span of positive length).
C22_Original ==
    (/\ ReactionsReturned /\ PositiveLength
     /\ InsideSpan(beamState.supportA) /\ InsideSpan(beamState.supportB)) =>
        /\ EnginesAgreeOnReactions
        /\ SimpleSolved => closedFormRb(beamState) = calculateReactionsU(beamState).Rb

\* the first half alone, for every BeamState
C22_EnginesAgree == ReactionsReturned => EnginesAgreeOnReactions

\* the closed form and the pivot form differ by 2 x totalLoadForce x supportA / dist
C22_ClosedFormOffset ==
    (ReactionsReturned /\ SimpleSolved) =>
        LET F == TotalDownwardForce(beamState.loads)
            dist == Sub(beamState.supportB, beamState.supportA)
        IN  Sub(closedFormRb(beamState), calculateReactionsU(beamState).Rb)
                = Div(Mul(R(2), Mul(F, beamState.supportA)), dist)


\* the load lies in [0, length): its position does, and a distributed load
\* ends no later than length
LoadWithinSpan(load) ==
    /\ Ge(load.position, Zero) /\ Lt(load.position, beamState.length)
    /\ IsDistributed(load) => Ge(beamState.length, Add(load.position, load.length))

LoadsWithinSpan == \A k \in LoadIndices : LoadWithinSpan(beamState.loads[k])

NoMomentLoads == \A k \in LoadIndices : beamState.loads[k].type # "moment"

SumOfMomentLoads ==
    SumSeq([k \in LoadIndices |->
              IF beamState.loads[k].type = "moment" THEN beamState.loads[k].value ELSE Zero])

RightCantilever == beamState.type = "cantilever-right" /\ PositiveLength /\ LoadsWithinSpan

\* every sample is the section under the loads alone
SweepAddsNoReaction ==
    \A i \in 0..POINTS :
        PreSnapValues(i) = SectionValues(beamState.loads, ZeroReactions, PreSnap(i).x)

\* C23: for a CantileverFixedRight beam whose loads (point, distributed,
\* concentrated moment) all lie in [0, length), the sweep adds no reaction and
\* the pre-snap values at the last sample match the wall reaction:
\* shear[last] = -Rb and moment[last] = Ma.
C23_Original ==
    (DiagramsReturned /\ RightCantilever) =>
        /\ SweepAddsNoReaction
        /\ PreSnap(POINTS).shear = Neg(reactions.Rb)
        /\ PreSnap(POINTS).moment = reactions.Ma

\* the same without concentrated moments
C23_ForcesOnly ==
    (DiagramsReturned /\ RightCantilever /\ NoMomentLoads) =>
        /\ SweepAddsNoReaction
        /\ PreSnap(POINTS).shear = Neg(reactions.Rb)
        /\ PreSnap(POINTS).moment = reactions.Ma

\* with concentrated moments the last moment misses Ma by twice their sum
C23_MomentOffset ==
    (DiagramsReturned /\ RightCantilever) =>
        /\ SweepAddsNoReaction
        /\ PreSnap(POINTS).shear = Neg(reactions.Rb)
        /\ PreSnap(POINTS).moment = Add(reactions.Ma, Mul(R(2), SumOfMomentLoads))


\* a Simple beam with 0 <= supportA < supportB < length and every load in [0, length)
OverhangingSpan ==
    /\ beamState.type = "simple"
    /\ Ge(beamState.supportA, Zero)
    /\ Lt(beamState.supportA, beamState.supportB)
    /\ Lt(beamState.supportB, beamState.length)
    /\ LoadsWithinSpan

\* C25: for a Simple beam with 0 <= supportA < supportB < length and every load
\* (point, distributed with its end, concentrated moment) in [0, length), the
\* pre-snap shear and the pre-snap moment at the last sample are both zero.
C25_Original ==
    (DiagramsReturned /\ OverhangingSpan) =>
        /\ PreSnap(POINTS).shear = Zero
        /\ PreSnap(POINTS).moment = Zero

\* the same without concentrated moments
C25_ForcesOnly ==
    (DiagramsReturned /\ OverhangingSpan /\ NoMomentLoads) =>
        /\ PreSnap(POINTS).shear = Zero
        /\ PreSnap(POINTS).moment = Zero

\* with concentrated moments the last moment is twice their sum
C25_MomentOffset ==
    (DiagramsReturned /\ OverhangingSpan) =>
        /\ PreSnap(POINTS).shear = Zero
        /\ PreSnap(POINTS).moment = Mul(R(2), SumOfMomentLoads)


SupportDistance == AbsN(Sub(beamState.supportB, beamState.supportA))

\* calculateReactions has taken the all-zero fallback exactly when the
\* boundary-condition step has skipped solving for C1 and C2
GuardsAgree == reactionGuard(beamState) <=> ~integratorGuard(beamState)

\* C26: for every Simple BeamState, calculateReactions returns the all-zero
\* fallback exactly when the boundary-condition step of calculateDiagrams skips
\* solving for C1 and C2, also when |supportB - supportA| is exactly 1e-4.
C26_Original ==
    (DiagramsReturned /\ beamState.type = "simple") => GuardsAgree

\* the same away from the tolerance itself
C26_OffTolerance ==
    (DiagramsReturned /\ beamState.type = "simple" /\ SupportDistance # DegenerateTol) =>
        GuardsAgree

\* at exactly 1e-4 the reactions are solved for and the constants are not
C26_AtTolerance ==
    (DiagramsReturned /\ beamState.type = "simple" /\ SupportDistance = DegenerateTol) =>
        /\ ~reactionGuard(beamState) /\ ~integratorGuard(beamState)
        /\ reactions = ReferenceReactions(beamState)
        /\ SolvedConstants = [C1 |-> Zero, C2 |-> Zero]


\* a point or distributed load of positive value lying inside the span
DownwardLoad(load) ==
    /\ load.type \in {"point", "distributed"}
    /\ Gt(load.value, Zero)
    /\ InsideSpan(load.position)
    /\ load.type = "distributed" =>
          /\ load.length # Undefined
          /\ Ge(load.length, Zero)
          /\ InsideSpan(Add(load.position, load.length))

\* a Simple beam on supports at 0 and length, EI > 0, downward loads only
SaggingSpan ==
    /\ beamState.type = "simple"
    /\ PositiveLength /\ PositiveEI
    /\ beamState.supportA = Zero
    /\ beamState.supportB = beamState.length
    /\ \A k \in LoadIndices : DownwardLoad(beamState.loads[k])

\* C27: for a Simple beam with supports at 0 and length, EI > 0 and only
\* downward loads (point and distributed loads of positive value inside the
\* span, no concentrated moments), the pre-snap moment is >= 0 and the returned
\* deflection is <= 0 at every sample.
C27_DeflectionDirection ==
    (DiagramsReturned /\ SaggingSpan) =>
        \A i \in 0..POINTS :
            /\ Ge(PreSnap(i).moment, Zero)
            /\ Ge(Zero, Samples[i].deflection)

\* a loaded span that sags: the moment is positive and the deflection negative
\* at some sample, under two loads
C27_Witness ==
    /\ DiagramsReturned /\ SaggingSpan
    /\ Len(beamState.loads) = 2
    /\ \E i \in 0..POINTS :
          Gt(PreSnap(i).moment, Zero) /\ Lt(Samples[i].deflection, Zero)


\* the BeamState with the values of supportA and supportB exchanged
SwappedSupports ==
    [beamState EXCEPT !.supportA = beamState.supportB, !.supportB = beamState.supportA]

\* C30: for every Simple BeamState with |supportB - supportA| >= 1e-4 and any
\* loads, exchanging the values of supportA and supportB exchanges Ra and Rb
\* in calculateReactions and leaves every sample (shear, moment, slope,
\* deflection) returned by calculateDiagrams unchanged.
C30_SupportSwap ==
    (/\ DiagramsCalled
     /\ beamState.type = "simple"
     /\ Ge(SupportDistance, DegenerateTol)) =>
        LET swapped == calculateDiagrams(engine, SwappedSupports)
        IN  /\ calculateReactions(engine, SwappedSupports)
                  = Reactions(reactions.Rb, reactions.Ra, reactions.Ma)
            /\ swapped.threw = results.threw
            /\ swapped.samples = Samples

\* an inverted pair of supports under load: unequal reactions and a beam that
\* deflects
C30_Witness ==
    /\ DiagramsReturned
    /\ beamState.type = "simple"
    /\ Lt(beamState.supportB, beamState.supportA)
    /\ InsideSpan(beamState.supportA) /\ InsideSpan(beamState.supportB)
    /\ reactions.Ra # reactions.Rb
    /\ \E i \in 0..POINTS :
          /\ Samples[i].deflection # Zero /\ IsFinite(Samples[i].deflection)
          /\ Samples[i].shear # Zero

(***************************************************************************)
(* The engine called again on the same input.  App recomputes both results *)
(* whenever a render sees a new beamState object, also one equal in value  *)
(* to the last; pc = "again" / "threw-again" once a repeated call is over. *)
(***************************************************************************)
RepeatLoadLists == LoadListsOf(LoadShapes, 0) \cup LoadListsOf(CombinedShapes, 2)

RepeatStates ==
    {BeamState(g[1], g[2], g[3], g[4], ls, st) :
        g \in Geometries, ls \in RepeatLoadLists, st \in Stiffnesses}

InitRepeat ==
    /\ engine \in Engines
    /\ beamState \in RepeatStates
    /\ pc = "ready"
    /\ reactions = Reactions(Zero, Zero, Zero)
    /\ results = NoResults
    /\ selectedLoadId = NoSelection
    /\ now = ClockStart

Called == {"done", "threw", "again", "threw-again"}

RecallReactions ==
    /\ pc \in Called
    /\ reactions' = calculateReactions(engine, beamState)
    /\ pc' = IF pc \in {"threw", "threw-again"} THEN "threw-again" ELSE "again"
    /\ UNCHANGED <<engine, beamState, results, selectedLoadId, now>>

\* mutant of RecallDiagrams: the call sorts the caller's loads array in place
\* (loads.reverse() on a list of two)
RecallDiagrams_reversesLoads ==
    /\ pc \in Called
    /\ results' = calculateDiagrams(engine, beamState)
    /\ pc' = IF results'.threw THEN "threw-again" ELSE "again"
    /\ beamState' = [beamState EXCEPT !.loads =
                        [i \in 1..Len(@) |-> @[Len(@) + 1 - i]]]
    /\ UNCHANGED <<engine, reactions, selectedLoadId, now>>

RecallDiagrams ==
    /\ pc \in Called
    /\ results' = calculateDiagrams(engine, beamState)
    /\ pc' = IF results'.threw THEN "threw-again" ELSE "again"
    /\ UNCHANGED <<engine, beamState, reactions, selectedLoadId, now>>

NextRepeat == CallReactions \/ CallDiagrams \/ RecallReactions \/ RecallDiagrams

SpecRepeat == InitRepeat /\ [][NextRepeat]_vars

DEFAULT_BEAM_LENGTH == 10

\* App imports ./utils/beamCalculator
AppEngine == "utils"

\* the largest number of loads on the beam
MaxAppLoads == 2

\* the number of times the clock advances
MaxTicks == 1

\* what the user types into the number inputs
TypedLengths == {R(0)}

TypedSupports == {R(12)}

TypedValues == {R(7)}

TypedPositions == {R(12)}

TypedLoadLengths == {R(1)}

BeamTypes == {"simple", "cantilever-left", "cantilever-right"}

LoadTypes == {"point", "distributed", "moment"}

\* part_000 lines 155-166
InitialBeamState ==
    BeamState(R(DEFAULT_BEAM_LENGTH), "simple", Zero, R(DEFAULT_BEAM_LENGTH),
              <<[id |-> 1, type |-> "point", value |-> R(10),
                 position |-> Div(R(DEFAULT_BEAM_LENGTH), R(2)), length |-> Undefined],
                [id |-> 2, type |-> "distributed", value |-> R(5),
                 position |-> R(1), length |-> R(3)]>>,
              [E |-> R(SteelE), I |-> R(Ipe160I), customI |-> Undefined])

\* calculateDiagrams throws on this state: a support index it reads is NaN
\* (part_001 lines 183-189 and 197-203, utils/beamCalculator.ts lines 343-375)
diagramsThrow(state) ==
    IF state.type = "simple"
    THEN \/ IsNaN(getIdx(state.supportA, sampleDx(state)))
         \/ IsNaN(getIdx(state.supportB, sampleDx(state)))
    ELSE IF state.type = "cantilever-left"
    THEN IsNaN(getIdx(state.supportA, sampleDx(state)))
    ELSE FALSE

\* diagramsThrow tells when a call of calculateDiagrams throws
ThrowsAsPredicted == DiagramsCalled => (results.threw = diagramsThrow(beamState))

\* the render after a state change calls calculateDiagrams and
\* calculateReactions through useMemo; their values are functions of beamState
\* alone and are not kept here, an exception ends the application
Render(state) ==
    /\ pc' = IF diagramsThrow(state) THEN "threw" ELSE "done"
    /\ UNCHANGED <<reactions, results>>

setBeamState(state) == beamState' = state /\ Render(state)

InitApp ==
    /\ engine = AppEngine
    /\ beamState = InitialBeamState
    /\ selectedLoadId = NoSelection
    /\ now = ClockStart
    /\ reactions = Reactions(Zero, Zero, Zero)
    /\ results = NoResults
    /\ pc = "done"

Mounted == pc = "done"

\* the environment: the clock advances
Tick ==
    /\ now < ClockStart + MaxTicks
    /\ now' = now + 1
    /\ UNCHANGED <<engine, beamState, pc, reactions, results, selectedLoadId>>

\* Controls, the Length input
UpdateLength ==
    /\ Mounted
    /\ \E v \in TypedLengths : setBeamState([beamState EXCEPT !.length = v])
    /\ UNCHANGED <<engine, selectedLoadId, now>>

\* Controls, the Beam Type select
UpdateType ==
    /\ Mounted
    /\ \E t \in BeamTypes : setBeamState([beamState EXCEPT !.type = t])
    /\ UNCHANGED <<engine, selectedLoadId, now>>

\* Controls, the Support A input (rendered for 'simple' only)
UpdateSupportA ==
    /\ Mounted
    /\ beamState.type = "simple"
    /\ \E v \in TypedSupports : setBeamState([beamState EXCEPT !.supportA = v])
    /\ UNCHANGED <<engine, selectedLoadId, now>>

\* Controls, the Support B input (rendered for 'simple' only)
UpdateSupportB ==
    /\ Mounted
    /\ beamState.type = "simple"
    /\ \E v \in TypedSupports : setBeamState([beamState EXCEPT !.supportB = v])
    /\ UNCHANGED <<engine, selectedLoadId, now>>

\* state.loads.find(l => l.id === selectedLoadId): the first such load, if any
HasSelectedLoad == \E k \in 1..Len(beamState.loads) : beamState.loads[k].id = selectedLoadId

selectedLoad ==
    beamState.loads[CHOOSE k \in 1..Len(beamState.loads) :
                       /\ beamState.loads[k].id = selectedLoadId
                       /\ \A j \in 1..(k - 1) : beamState.loads[j].id # selectedLoadId]

\* state.loads.map(l => l.id === selectedLoadId ? { ...l, [key]: value } : l)
mapLoads(loads, id, key, value) ==
    [k \in 1..Len(loads) |->
        IF loads[k].id = id THEN [loads[k] EXCEPT ![key] = value] ELSE loads[k]]

\* Controls.updateLoad, from the inputs of the selected load (the Length input
\* is rendered for a distributed load only)
updateLoad(key, value) ==
    /\ Mounted
    /\ selectedLoadId # NoSelection
    /\ HasSelectedLoad
    /\ key = "length" => selectedLoad.type = "distributed"
    /\ setBeamState([beamState EXCEPT !.loads = mapLoads(@, selectedLoadId, key, value)])
    /\ UNCHANGED <<engine, selectedLoadId, now>>

UpdateLoad ==
    \/ \E v \in TypedValues : updateLoad("value", v)
    \/ \E v \in TypedPositions : updateLoad("position", v)
    \/ \E v \in TypedLoadLengths : updateLoad("length", v)

\* part_000 lines 187-200
handleAddLoad(type) ==
    /\ Mounted
    /\ Len(beamState.loads) < MaxAppLoads
    /\ setBeamState([beamState EXCEPT !.loads =
            Append(@, [id |-> now, type |-> type, value |-> R(10),
                       position |-> Div(beamState.length, R(2)),
                       length |-> IF type = "distributed" THEN R(2) ELSE Undefined])])
    /\ selectedLoadId' = now
    /\ UNCHANGED <<engine, now>>

AddLoad == \E type \in LoadTypes : handleAddLoad(type)

\* loads.filter(l => l.id !== id)
filterLoads(loads, id) == SelectSeq(loads, LAMBDA l : l.id # id)

\* mutant of handleDeleteLoad: the selection is kept
handleDeleteLoad_keepsSelection ==
    /\ Mounted
    /\ HasSelectedLoad
    /\ setBeamState([beamState EXCEPT !.loads = filterLoads(@, selectedLoad.id)])
    /\ UNCHANGED <<engine, selectedLoadId, now>>

\* part_000 lines 202-208, from the delete button of the selected load
handleDeleteLoad ==
    /\ Mounted
    /\ HasSelectedLoad
    /\ setBeamState([beamState EXCEPT !.loads = filterLoads(@, selectedLoad.id)])
    /\ selectedLoadId' = NoSelection
    /\ UNCHANGED <<engine, now>>

\* part_000 lines 210-223; confirm() is answered by the user
handleReset ==
    /\ Mounted
    /\ \E confirmed \in BOOLEAN :
          IF confirmed
          THEN /\ setBeamState([InitialBeamState EXCEPT !.loads = <<>>])
               /\ selectedLoadId' = NoSelection
               /\ UNCHANGED <<engine, now>>
          ELSE UNCHANGED vars

\* BeamVisualizer: a click on a rendered load
SelectLoad ==
    /\ Mounted
    /\ \E k \in 1..Len(beamState.loads) : selectedLoadId' = beamState.loads[k].id
    /\ UNCHANGED <<engine, beamState, pc, reactions, results, now>>

\* BeamVisualizer: a click on the background of the drawing
Deselect ==
    /\ Mounted
    /\ selectedLoadId' = NoSelection
    /\ UNCHANGED <<engine, beamState, pc, reactions, results, now>>

\* the handlers that work on the loads and on the selection
NextLoads ==
    \/ Tick
    \/ AddLoad
    \/ SelectLoad
    \/ Deselect
    \/ UpdateLoad
    \/ handleDeleteLoad
    \/ handleReset

SpecLoads == InitApp /\ [][NextLoads]_vars

\* every handler that changes the geometry, the loads or the selection (the
\* Material & Profile inputs change material, profile, customI and customW only)
NextApp ==
    \/ UpdateLength
    \/ UpdateType
    \/ UpdateSupportA
    \/ UpdateSupportB
    \/ NextLoads

SpecApp == InitApp /\ [][NextApp]_vars

(***************************************************************************)
(* Claims on the application                                               *)
(***************************************************************************)
\* C24: in every application state reached by Controls edits (length, beam
\* type, supportA, supportB, a load's value, position or length), add-load,
\* delete-load and reset from the initial App state, 0 <= supportA <= length,
\* 0 <= supportB <= length and every load's position lies in [0, length]
\* (stated for the states the application has rendered).
C24_Original ==
    Mounted =>
        /\ InsideSpan(beamState.supportA)
        /\ InsideSpan(beamState.supportB)
        /\ \A k \in LoadIndices : InsideSpan(beamState.loads[k].position)

\* what the handlers do keep: a load is added at the middle of the span
C24_AddedAtMidspan ==
    [][\A type \in LoadTypes :
          handleAddLoad(type) =>
              /\ Len(beamState'.loads) = Len(beamState.loads) + 1
              /\ beamState'.loads[Len(beamState'.loads)].position
                     = Div(beamState.length, R(2))]_vars

LoadIds == {beamState.loads[k].id : k \in 1..Len(beamState.loads)}

SelectionValid == selectedLoadId = NoSelection \/ selectedLoadId \in LoadIds

\* what add-load, delete-load and reset leave selected
SelectionAfterStep ==
    /\ AddLoad => (/\ Len(beamState'.loads) = Len(beamState.loads) + 1
                   /\ selectedLoadId' = beamState'.loads[Len(beamState'.loads)].id)
    /\ handleDeleteLoad => (selectedLoadId' = NoSelection)
    /\ handleReset => (selectedLoadId' = NoSelection)

\* C28: after any sequence of add-load, select-load, deselect, update-load,
\* delete-load and reset actions, selectedLoadId is null or the id of a load
\* in beamState.loads; add-load leaves the new load selected, delete-load and
\* reset leave selectedLoadId = null.
C28_Selection == []SelectionValid /\ [][SelectionAfterStep]_vars

\* an added load is selected after an initial load has been deleted
C28_Witness ==
    /\ Mounted
    /\ selectedLoadId >= ClockStart
    /\ selectedLoadId \in LoadIds
    /\ 1 \notin LoadIds
    /\ 2 \in LoadIds

IdsUnique ==
    \A j, k \in 1..Len(beamState.loads) :
        beamState.loads[j].id = beamState.loads[k].id => j = k

\* every BeamState field but loads is left as it was
OtherFieldsKept == [beamState' EXCEPT !.loads = beamState.loads] = beamState

\* update-load changes one load and keeps its id; delete-load removes one load
FrameOfLoadSteps ==
    /\ UpdateLoad =>
          (/\ OtherFieldsKept
           /\ Len(beamState'.loads) = Len(beamState.loads)
           /\ \E k \in 1..Len(beamState.loads) :
                 /\ beamState'.loads[k].id = beamState.loads[k].id
                 /\ \A j \in 1..Len(beamState.loads) :
                       j # k => beamState'.loads[j] = beamState.loads[j])
    /\ handleDeleteLoad =>
          (/\ OtherFieldsKept
           /\ \E k \in 1..Len(beamState.loads) :
                 beamState'.loads = RemoveAt(beamState.loads, k))

\* C29: in every App state reached by add-load, update-load, delete-load and
\* reset (the id of an added load being the reading of a non-decreasing clock),
\* no two loads share an id, so update-load changes exactly one load and
\* delete-load removes exactly one load and leaves every other load and every
\* other BeamState field unchanged.
C29_Original == []IdsUnique /\ [][FrameOfLoadSteps]_vars

\* the frame part alone, from the states in which the ids are unique
C29_FrameWhenUnique == [][IdsUnique => FrameOfLoadSteps]_vars

\* loads that share an id were both added at the same clock reading: the ids
\* of the initial loads stay unique, and an added load carries a reading no
\* later than the present one
C29_SharedIdsAreReadings ==
    \A j, k \in 1..Len(beamState.loads) :
        (j # k /\ beamState.loads[j].id = beamState.loads[k].id) =>
            (beamState.loads[j].id >= ClockStart /\ beamState.loads[j].id <= now)

====
